---- MODULE Spec2Model ----
(***************************************************************************)
(* Model of the repository-analysis pipeline of free-backend-hosting:      *)
(* DeploymentService.deploy_repository (services/deployer.py) driving      *)
(* GitHubRepoHandler (services/git_clone.py) and FastAPIDetector           *)
(* (services/app_detector.py).  One DeploymentService instance, and hence  *)
(* one GitHubRepoHandler with its temp_dir field, is shared by all runs    *)
(* (app.py keeps it in the session state).                                 *)
(***************************************************************************)
EXTENDS Integers, Sequences, FiniteSets, TLC

\* ------------------------------------------------------------------ bounds
\* longest text after the scheme and host of an input URL
MaxTail == 4
\* number of temporary directories tempfile.mkdtemp can hand out
MaxDirs == 2
\* number of files in a cloned repository
MaxFiles == 2
\* number of overlapping invocations of deploy_repository
MaxProcs == 2
\* longest text after the scheme and host of a URL handed to a validator
MaxInput == 6
\* number of lines of a source text handed to extract_app_variable_name
MaxLines == 2
\* number of files in a directory tree handed to scan_directory_for_fastapi
MaxScan == 3
\* number of lines of an uploaded .env text
MaxEnvLines == 3
\* whole seconds the clock goes through after the service starts
MaxSeconds == 1
\* invocations of deploy_repository that write artifacts
MaxRuns == 2

Procs == 1..MaxProcs
\* self.temp_dir = None
NoDir == 0

\* ------------------------------------------------------------- input URLs
\* A URL is the scheme and host followed by a text over Chars.
Heads == {"https://github.com", "ftp://example.com"}
Chars == {"/", "a"}

RECURSIVE Texts(_)
Texts(n) == IF n = 0 THEN {<<>>}
            ELSE Texts(n - 1) \cup {Append(t, c) : t \in {u \in Texts(n - 1) : Len(u) = n - 1}, c \in Chars}

URLs == [head : Heads, tail : Texts(MaxTail)]

\* str.strip('/')
RECURSIVE LStrip(_)
LStrip(s) == IF s # <<>> /\ Head(s) = "/" THEN LStrip(Tail(s)) ELSE s

RECURSIVE RStrip(_)
RStrip(s) == IF s # <<>> /\ s[Len(s)] = "/" THEN RStrip(SubSeq(s, 1, Len(s) - 1)) ELSE s

Strip(s) == RStrip(LStrip(s))

\* str.split('/'): the segments between separators, empty ones included
RECURSIVE Split(_)
Split(s) ==
  IF \E i \in 1..Len(s) : s[i] = "/"
  THEN LET i == CHOOSE j \in 1..Len(s) : s[j] = "/" /\ \A k \in 1..(j - 1) : s[k] # "/"
       IN <<SubSeq(s, 1, i - 1)>> \o Split(SubSeq(s, i + 1, Len(s)))
  ELSE <<s>>

\* github_url.startswith('https://github.com/')
StartsWithGithub(url) ==
  url.head = "https://github.com" /\ url.tail # <<>> /\ url.tail[1] = "/"

\* urlparse(github_url).path.strip('/').split('/')
path_parts(url) == Split(Strip(url.tail))

\* The structural part of GitHubRepoHandler.validate_github_url: the checks
\* made before any request is sent.  "ok" lets the metadata request go out.
StructuralCheck(url) ==
  IF ~StartsWithGithub(url) THEN "Must be a valid GitHub HTTPS URL"
  ELSE IF Len(path_parts(url)) < 2 THEN "Invalid GitHub URL format"
  ELSE "ok"

\* The URLs handed directly to the handler's methods: long enough to carry a
\* third path segment.
RECURSIVE TextsOver(_, _)
TextsOver(chars, n) ==
  IF n = 0 THEN {<<>>}
  ELSE TextsOver(chars, n - 1) \cup
       {Append(t, c) : t \in {u \in TextsOver(chars, n - 1) : Len(u) = n - 1}, c \in chars}

HandlerURLs == [head : Heads, tail : TextsOver(Chars, MaxInput)]

\* ---------------------------------------------------- utils/validators.py
\* The inputs of validators.validate_github_url: a prefix and a text over a
\* word character, the separator, a blank and a newline.  The empty prefix
\* with the empty text is the empty string (or None).
ValidatorHeads == {"", "https://github.com", "http://github.com"}
ValidatorChars == {"/", "a", " ", "\n"}
ValidatorInputs == [head : ValidatorHeads, tail : TextsOver(ValidatorChars, MaxInput)]

\* [\w\-\.]+
WordChars == {"a"}
IsWord(s) == s # <<>> /\ \A i \in 1..Len(s) : s[i] \in WordChars

\* `$` without re.MULTILINE matches at the end of the string and also just
\* before a newline that ends the string.
DollarEnds == {<<>>, <<"\n">>}

\* re.match(r'^https://github\.com/[\w\-\.]+/[\w\-\.]+/?$', url)
MatchesGithubPattern(url) ==
  LET t == url.tail IN
    /\ url.head = "https://github.com"
    /\ \E i \in 2..Len(t) : \E j \in (i + 2)..Len(t) :
         /\ t[1] = "/"
         /\ IsWord(SubSeq(t, 2, i))
         /\ t[i + 1] = "/"
         /\ IsWord(SubSeq(t, i + 2, j))
         /\ \E e \in DollarEnds : SubSeq(t, j + 1, Len(t)) \in {e, <<"/">> \o e}

\* validators.validate_github_url
validators_validate_github_url(url) ==
  IF url.head = "" /\ url.tail = <<>> THEN [valid |-> FALSE, error |-> "URL cannot be empty"]
  ELSE IF ~MatchesGithubPattern(url) THEN [valid |-> FALSE, error |-> "Invalid GitHub URL format"]
  ELSE [valid |-> TRUE, error |-> ""]

\* ------------------------------------------------------- repository files
\* A source line stands for its text; LineInfo gives what the detector's
\* patterns and ast.parse make of it:
\*   imp    import_patterns (1..3) that match the line (re.IGNORECASE)
\*   inst   app_patterns (1..5) that match the line (re.IGNORECASE)
\*   parses whether ast.parse accepts the line
\*   call   "yes" when the line is an Assign whose value is a Call of FastAPI
\*          (by name or by attribute), "no" otherwise
\*   id     the identifier of targets[0], "" when the target has no id
\*   depth  nesting depth of that Assign (0 = module body)
\*   re1    group 1 of (\w+)\s*=\s*FastAPI\(          ("" = no match)
\*   re2    group 1 of (\w+)\s*=\s*fastapi\.FastAPI\(  ("" = no match)
\*   route  the line contains @app.route, @app.get or @app.post
\*   uvi    the line contains uvicorn
Plain == [imp |-> {}, inst |-> {}, parses |-> TRUE, call |-> "no", id |-> "", depth |-> 0,
          re1 |-> "", re2 |-> "", route |-> FALSE, uvi |-> FALSE]

LineInfo(line) ==
  CASE line = "from fastapi import FastAPI" -> [Plain EXCEPT !.imp = {1, 2, 3}]
    [] line = "import fastapi" -> [Plain EXCEPT !.imp = {2}]
    [] line = "app = FastAPI()" ->
         [Plain EXCEPT !.inst = {1}, !.call = "yes", !.id = "app", !.re1 = "app"]
    [] line = "api = FastAPI()" ->
         [Plain EXCEPT !.inst = {3}, !.call = "yes", !.id = "api", !.re1 = "api"]
    [] line = "web = fastapi.FastAPI()" ->
         [Plain EXCEPT !.call = "yes", !.id = "web", !.re2 = "web"]
    [] line = "def f(): server = FastAPI()" ->
         [Plain EXCEPT !.inst = {4}, !.call = "yes", !.id = "server", !.depth = 1, !.re1 = "server"]
    [] line = "self.app = FastAPI()" ->
         [Plain EXCEPT !.inst = {1}, !.call = "yes", !.id = "", !.re1 = "app"]
    [] line = "@app.get('/') def r(): pass" -> [Plain EXCEPT !.route = TRUE]
    [] line = "uvicorn.run(app)" -> [Plain EXCEPT !.uvi = TRUE]
    [] line = "def (" -> [Plain EXCEPT !.parses = FALSE]
    [] line = "# 1 = FastAPI()" -> [Plain EXCEPT !.re1 = "1"]
    [] OTHER -> Plain

\* A file of the checkout: its path relative to the workspace root (one
\* component per directory level), whether it can be read as UTF-8 text,
\* and its lines.
MainPy == [path |-> <<"main.py">>, readable |-> TRUE,
           lines |-> <<"from fastapi import FastAPI", "app = FastAPI()">>]
AppPy == [path |-> <<"app.py">>, readable |-> TRUE,
          lines |-> <<"from fastapi import FastAPI", "api = FastAPI()",
                      "@app.get('/') def r(): pass", "uvicorn.run(app)">>]
UtilsPy == [path |-> <<"utils.py">>, readable |-> TRUE, lines |-> <<"import fastapi">>]
BinaryPy == [path |-> <<"data.py">>, readable |-> FALSE,
             lines |-> <<"from fastapi import FastAPI", "app = FastAPI()">>]
Readme == [path |-> <<"README.md">>, readable |-> TRUE, lines |-> <<"app = FastAPI()">>]

FileKinds == {MainPy, AppPy, UtilsPy, BinaryPy, Readme}

\* A checkout is its files in the order os.walk yields them, paths distinct.
RECURSIVE Checkouts(_)
Checkouts(n) ==
  IF n = 0 THEN {<<>>}
  ELSE Checkouts(n - 1) \cup
       {Append(r, f) : r \in {q \in Checkouts(n - 1) : Len(q) = n - 1},
                       f \in FileKinds}

DistinctPaths(r) == \A i, j \in 1..Len(r) : i # j => r[i].path # r[j].path

Repos == {r \in Checkouts(MaxFiles) : DistinctPaths(r)}

\* Further files of a directory tree handed directly to the scanner: a
\* nested main.py, a second root entry file with the lines of main.py, a file
\* with an instance and no import, and a file without FastAPI.
NestedMainPy == [path |-> <<"pkg", "main.py">>, readable |-> TRUE,
                 lines |-> <<"from fastapi import FastAPI", "app = FastAPI()">>]
ApiPy == [path |-> <<"api.py">>, readable |-> TRUE,
          lines |-> <<"from fastapi import FastAPI", "app = FastAPI()">>]
ServerPy == [path |-> <<"server.py">>, readable |-> TRUE, lines |-> <<"app = FastAPI()">>]
NotesPy == [path |-> <<"notes.py">>, readable |-> TRUE, lines |-> <<"x = 1">>]
\* a nested file in which the same instance pattern matches twice
PkgServerPy == [path |-> <<"pkg", "server.py">>, readable |-> TRUE,
                lines |-> <<"app = FastAPI()", "app = FastAPI()">>]

TreeKinds == FileKinds \cup {NestedMainPy, ApiPy, ServerPy, NotesPy, PkgServerPy}

RECURSIVE CheckoutsOf(_, _)
CheckoutsOf(kinds, n) ==
  IF n = 0 THEN {<<>>}
  ELSE CheckoutsOf(kinds, n - 1) \cup
       {Append(r, f) : r \in {q \in CheckoutsOf(kinds, n - 1) : Len(q) = n - 1}, f \in kinds}

Trees == {r \in CheckoutsOf(TreeKinds, MaxScan) : DistinctPaths(r)}

\* The source texts handed directly to extract_app_variable_name.
SourceLines == {"from fastapi import FastAPI", "app = FastAPI()", "api = FastAPI()",
                "web = fastapi.FastAPI()", "def f(): server = FastAPI()",
                "self.app = FastAPI()", "uvicorn.run(app)", "def (", "# 1 = FastAPI()", "x = 1"}

SourceTexts == TextsOver(SourceLines, MaxLines)

\* ---------------------------------------------------------- FastAPIDetector
basename(path) == path[Len(path)]

\* file.endswith('.py')
IsPy(f) == basename(f.path) \in {"main.py", "app.py", "utils.py", "data.py",
                                   "api.py", "server.py", "notes.py"}

import_patterns == 1..3
app_patterns == 1..5

\* analyze_python_file in which only an import marks a file as FastAPI
analyze_python_file_imports_only(f) ==
  IF ~f.readable
  THEN [has_fastapi |-> FALSE, app_instances |-> 0, imports |-> 0, confidence |-> 0, error |-> TRUE]
  ELSE LET imps == {k \in import_patterns : \E i \in 1..Len(f.lines) : k \in LineInfo(f.lines[i]).imp}
           insts == {k \in app_patterns : \E i \in 1..Len(f.lines) : k \in LineInfo(f.lines[i]).inst}
       IN [has_fastapi |-> imps # {},
           app_instances |-> Cardinality({<<i, k>> \in (1..Len(f.lines)) \X app_patterns :
                                            k \in LineInfo(f.lines[i]).inst}),
           imports |-> Cardinality(imps),
           confidence |-> 30 * Cardinality(imps) + 40 * Cardinality(insts),
           error |-> FALSE]

\* analyze_python_file that adds to the confidence once per line on which a
\* pattern matches, not once per pattern
analyze_python_file_per_occurrence(f) ==
  IF ~f.readable
  THEN [has_fastapi |-> FALSE, app_instances |-> 0, imports |-> 0, confidence |-> 0, error |-> TRUE]
  ELSE LET imps == {k \in import_patterns : \E i \in 1..Len(f.lines) : k \in LineInfo(f.lines[i]).imp}
           insts == {k \in app_patterns : \E i \in 1..Len(f.lines) : k \in LineInfo(f.lines[i]).inst}
           impLines == {i \in 1..Len(f.lines) : LineInfo(f.lines[i]).imp # {}}
           instLines == {i \in 1..Len(f.lines) : LineInfo(f.lines[i]).inst # {}}
           route == \E i \in 1..Len(f.lines) : LineInfo(f.lines[i]).route
           uvi == \E i \in 1..Len(f.lines) : LineInfo(f.lines[i]).uvi
       IN [has_fastapi |-> imps # {} \/ insts # {},
           app_instances |-> Cardinality({<<i, k>> \in (1..Len(f.lines)) \X app_patterns :
                                            k \in LineInfo(f.lines[i]).inst}),
           imports |-> Cardinality(imps),
           confidence |-> 30 * Cardinality(impLines) + 40 * Cardinality(instLines)
                          + (IF route THEN 20 ELSE 0) + (IF uvi THEN 10 ELSE 0),
           error |-> FALSE]

\* FastAPIDetector.analyze_python_file
analyze_python_file(f) ==
  IF ~f.readable
  THEN [has_fastapi |-> FALSE, app_instances |-> 0, imports |-> 0, confidence |-> 0, error |-> TRUE]
  ELSE LET imps == {k \in import_patterns : \E i \in 1..Len(f.lines) : k \in LineInfo(f.lines[i]).imp}
           insts == {k \in app_patterns : \E i \in 1..Len(f.lines) : k \in LineInfo(f.lines[i]).inst}
           route == \E i \in 1..Len(f.lines) : LineInfo(f.lines[i]).route
           uvi == \E i \in 1..Len(f.lines) : LineInfo(f.lines[i]).uvi
       IN [has_fastapi |-> imps # {} \/ insts # {},
           app_instances |-> Cardinality({<<i, k>> \in (1..Len(f.lines)) \X app_patterns :
                                            k \in LineInfo(f.lines[i]).inst}),
           imports |-> Cardinality(imps),
           confidence |-> 30 * Cardinality(imps) + 40 * Cardinality(insts)
                          + (IF route THEN 20 ELSE 0) + (IF uvi THEN 10 ELSE 0),
           error |-> FALSE]

main_names == {"main.py", "app.py", "server.py", "api.py"}

\* score_app without the bonus for the root directory
score_app_no_root_bonus(app) ==
  app.confidence + (IF basename(app.file) \in main_names THEN 50 ELSE 0)

\* score_app inside FastAPIDetector.get_recommended_app
score_app(app) ==
  app.confidence + (IF basename(app.file) \in main_names THEN 50 ELSE 0)
                 + (IF Len(app.file) = 1 THEN 20 ELSE 0)

\* FastAPIDetector.get_recommended_app: sorted(..., reverse=True)[0] is the
\* first candidate, in list order, that has the maximum score (the sort is
\* stable, also with reverse=True).
get_recommended_app(found_apps) ==
  LET i == CHOOSE j \in 1..Len(found_apps) :
             /\ \A k \in 1..Len(found_apps) : score_app(found_apps[k]) <= score_app(found_apps[j])
             /\ \A k \in 1..(j - 1) : score_app(found_apps[k]) < score_app(found_apps[j])
  IN found_apps[i]

NoApp == [file |-> <<>>, app_instances |-> 0, imports |-> 0, confidence |-> 0]

RECURSIVE FoundApps(_)
FoundApps(files) ==
  IF files = <<>> THEN <<>>
  ELSE LET f == Head(files)
           info == analyze_python_file(f)
       IN (IF IsPy(f) /\ info.has_fastapi
           THEN <<[file |-> f.path, app_instances |-> info.app_instances,
                   imports |-> info.imports, confidence |-> info.confidence]>>
           ELSE <<>>) \o FoundApps(Tail(files))

EmptyScan == [found_apps |-> <<>>, python_files |-> <<>>, potential_main_files |-> <<>>,
              has_fastapi |-> FALSE, recommended_app |-> NoApp, error |-> TRUE]

main_file_names == {"main.py", "app.py", "server.py", "api.py", "run.py"}

\* results["python_files"]: the relative path of every .py file, in walk order
RECURSIVE PythonFiles(_)
PythonFiles(files) ==
  IF files = <<>> THEN <<>>
  ELSE (IF IsPy(Head(files)) THEN <<Head(files).path>> ELSE <<>>) \o PythonFiles(Tail(files))

\* results["potential_main_files"]: those of them with a main file name
PotentialMainFiles(files) ==
  SelectSeq(PythonFiles(files), LAMBDA path : basename(path) \in main_file_names)

\* a scan in which the error of reading one file leaves analyze_python_file
\* and ends the whole scan in its except branch
scan_aborts_on_unreadable(files, walkFails) ==
  IF walkFails \/ \E i \in 1..Len(files) : IsPy(files[i]) /\ ~files[i].readable
  THEN EmptyScan
  ELSE LET found == FoundApps(files)
       IN [found_apps |-> found,
           python_files |-> PythonFiles(files),
           potential_main_files |-> PotentialMainFiles(files),
           has_fastapi |-> found # <<>>,
           recommended_app |-> IF found # <<>> THEN get_recommended_app(found) ELSE NoApp,
           error |-> FALSE]

\* FastAPIDetector.scan_directory_for_fastapi over the files os.walk yields;
\* walkFails is an exception raised inside the walk, which the method catches.
scan_directory_for_fastapi(files, walkFails) ==
  IF walkFails THEN EmptyScan
  ELSE LET found == FoundApps(files)
       IN [found_apps |-> found,
           python_files |-> PythonFiles(files),
           potential_main_files |-> PotentialMainFiles(files),
           has_fastapi |-> found # <<>>,
           recommended_app |-> IF found # <<>> THEN get_recommended_app(found) ELSE NoApp,
           error |-> FALSE]

\* a walk that visits the statements in the order of the source text
WalkOrder_source(lines) == lines

\* The Assign nodes of a parsed file in the order ast.walk visits them:
\* breadth first, so every module-level statement comes before any nested one.
WalkOrder(lines) ==
  LET at(d) == SelectSeq([i \in 1..Len(lines) |-> lines[i]], LAMBDA l : LineInfo(l).depth = d)
  IN at(0) \o at(1)

RECURSIVE FirstWith(_, _)
FirstWith(ls, field) ==
  IF ls = <<>> THEN ""
  ELSE IF field = "ast" /\ LineInfo(Head(ls)).call = "yes" /\ LineInfo(Head(ls)).id # ""
       THEN LineInfo(Head(ls)).id
  ELSE IF field = "re1" /\ LineInfo(Head(ls)).re1 # "" THEN LineInfo(Head(ls)).re1
  ELSE IF field = "re2" /\ LineInfo(Head(ls)).re2 # "" THEN LineInfo(Head(ls)).re2
  ELSE FirstWith(Tail(ls), field)

\* FastAPIDetector.extract_app_variable_name
extract_app_variable_name(lines) ==
  IF \E i \in 1..Len(lines) : ~LineInfo(lines[i]).parses
  THEN "app"
  ELSE IF FirstWith(WalkOrder(lines), "ast") # "" THEN FirstWith(WalkOrder(lines), "ast")
  ELSE IF FirstWith(lines, "re1") # "" THEN FirstWith(lines, "re1")
  ELSE IF FirstWith(lines, "re2") # "" THEN FirstWith(lines, "re2")
  ELSE "app"

\* -------------------------------------------------------- GitHubRepoHandler
\* What the three removal strategies of _force_remove_readonly do to the
\* directory, as one outcome of the filesystem:
\*   rmtree_ok            shutil.rmtree removes it
\*   retry_ok             PermissionError, the onerror retry removes it
\*   retry_fail_rm_ok     the retry fails too, the system command removes it
\*   retry_fail_rm_fail   all three strategies leave it in place
\*   rmtree_error         shutil.rmtree raises an error that is not a
\*                        PermissionError: it leaves the method
DeleteOutcomes == {"rmtree_ok", "retry_ok", "retry_fail_rm_ok", "retry_fail_rm_fail", "rmtree_error"}

\* GitHubRepoHandler._force_remove_readonly: whether the directory is gone,
\* whether an error leaves the method, and the strategies it tried, in order
force_remove_readonly(outcome) ==
  [removed |-> outcome \in {"rmtree_ok", "retry_ok", "retry_fail_rm_ok"},
   raised |-> outcome = "rmtree_error",
   strategies |-> CASE outcome \in {"rmtree_ok", "rmtree_error"} -> <<"rmtree">>
                    [] outcome = "retry_ok" -> <<"rmtree", "rmtree_onerror">>
                    [] OTHER -> <<"rmtree", "rmtree_onerror", "system_command">>]

Without(dk, d) == [x \in (DOMAIN dk) \ {d} |-> dk[x]]

\* cleanup_temp_directory without its try/except around the removal
cleanup_unguarded(td, dk, outcome) ==
  IF td # NoDir /\ td \in DOMAIN dk
  THEN LET r == force_remove_readonly(outcome)
       IN [temp_dir |-> IF r.raised THEN td ELSE NoDir,
           disk |-> IF r.removed THEN Without(dk, td) ELSE dk,
           raised |-> r.raised,
           attempted |-> TRUE]
  ELSE [temp_dir |-> td, disk |-> dk, raised |-> FALSE, attempted |-> FALSE]

\* cleanup_temp_directory without the os.path.exists test: removing a path
\* that is gone fails, and the except branch clears the field
cleanup_no_exists_check(td, dk, outcome) ==
  IF td # NoDir
  THEN [temp_dir |-> NoDir,
        disk |-> IF td \in DOMAIN dk /\ force_remove_readonly(outcome).removed
                 THEN Without(dk, td) ELSE dk,
        raised |-> FALSE,
        attempted |-> TRUE]
  ELSE [temp_dir |-> td, disk |-> dk, raised |-> FALSE, attempted |-> FALSE]

\* cleanup_temp_directory whose except branch raises again after the warning
cleanup_reraises(td, dk, outcome) ==
  IF td # NoDir /\ td \in DOMAIN dk
  THEN LET r == force_remove_readonly(outcome)
       IN [temp_dir |-> NoDir,
           disk |-> IF r.removed THEN Without(dk, td) ELSE dk,
           raised |-> ~r.removed,
           attempted |-> TRUE]
  ELSE [temp_dir |-> td, disk |-> dk, raised |-> FALSE, attempted |-> FALSE]

\* GitHubRepoHandler.cleanup_temp_directory on the handler's temp_dir field
\* and the disk: the new field and disk, whether the call raised and whether
\* a delete was attempted.
cleanup_temp_directory(td, dk, outcome) ==
  IF td # NoDir /\ td \in DOMAIN dk
  THEN LET r == force_remove_readonly(outcome)
       IN [temp_dir |-> NoDir,
           disk |-> IF r.removed THEN Without(dk, td) ELSE dk,
           raised |-> FALSE,
           attempted |-> TRUE]
  ELSE [temp_dir |-> td, disk |-> dk, raised |-> FALSE, attempted |-> FALSE]

\* Python truthiness of an optional string ("None" stands for None)
Truthy(s) == s \notin {"None", ""}

\* The error of GitHubRepoHandler.validate_github_url for the answer to the
\* metadata request ("ok" = 200 with a JSON body).
MetadataStatuses == {"200", "404", "500", "neterr", "badjson"}

metadata_error(status) ==
  CASE status = "200" -> "ok"
    [] status = "404" -> "Repository not found or is private"
    [] status = "neterr" -> "Network error"
    [] status = "badjson" -> "Validation error"
    [] OTHER -> "GitHub API error"

\* The error of GitHubRepoHandler.analyze_repository_structure for the
\* answer to the contents-listing request.
ListingStatuses == {"200", "404", "500", "neterr"}

listing_error(status) ==
  CASE status = "200" -> "ok"
    [] status = "neterr" -> "Analysis error"
    [] OTHER -> "Could not access repository contents"

\* clone_repository_temp with one message for every failure
clone_message_merged(outcome) ==
  IF outcome = "ok" THEN "Repository cloned successfully" ELSE "Git clone failed"

\* The outcomes of `git clone` in clone_repository_temp and the message of
\* each ("ok" = return code 0).
CloneOutcomes == {"ok", "nonzero", "timeout", "nogit"}

clone_message(outcome) ==
  CASE outcome = "ok" -> "Repository cloned successfully"
    [] outcome = "nonzero" -> "Git clone failed"
    [] outcome = "timeout" -> "Clone operation timed out"
    [] outcome = "nogit" -> "Git not found. Please install Git."
    [] OTHER -> "Clone error"

\* get_requirements_content decoding the body whatever the status
requirements_of_any_status(answer) ==
  CASE answer = "content" -> "fastapi\nuvicorn"
    [] answer = "empty" -> ""
    [] answer = "500" -> "Internal Server Error"
    [] OTHER -> "None"

\* The answers to the request for requirements.txt in
\* get_requirements_content, and the content the method returns for each.
RequirementsAnswers == {"content", "empty", "undecodable", "404", "500", "neterr"}

requirements_of(answer) ==
  CASE answer = "content" -> "fastapi\nuvicorn"
    [] answer = "empty" -> ""
    [] OTHER -> "None"

\* GitHubRepoHandler.validate_github_url for a URL and the answer to its
\* metadata request: the result and the number of requests sent.
validate_github_url(url, status) ==
  IF StructuralCheck(url) # "ok"
  THEN [valid |-> FALSE, error |-> StructuralCheck(url), requests |-> 0]
  ELSE [valid |-> metadata_error(status) = "ok", error |-> metadata_error(status), requests |-> 1]

\* GitHubRepoHandler.analyze_repository_structure for a URL and the answers
\* to the metadata request and to the contents-listing request.
analyze_repository_structure(url, status, listing) ==
  LET validation == validate_github_url(url, status) IN
    IF ~validation.valid THEN validation
    ELSE [valid |-> listing_error(listing) = "ok", error |-> listing_error(listing), requests |-> 2]

\* -------------------------------------------------------- EnvironmentHandler
\* A line of an uploaded .env text stands for its text; EnvLineInfo gives what
\* parse_env_file makes of it: whether it is kept (not blank, not a comment,
\* with an '='), and the stripped key and the stripped, unquoted value.
EnvLines == {"A=1", "A=2", "B=1", " A = 3 ", "B='q'", "# A=9", "", "junk"}

EnvLineInfo(line) ==
  CASE line = "A=1" -> [pair |-> TRUE, key |-> "A", value |-> "1"]
    [] line = "A=2" -> [pair |-> TRUE, key |-> "A", value |-> "2"]
    [] line = "B=1" -> [pair |-> TRUE, key |-> "B", value |-> "1"]
    [] line = " A = 3 " -> [pair |-> TRUE, key |-> "A", value |-> "3"]
    [] line = "B='q'" -> [pair |-> TRUE, key |-> "B", value |-> "q"]
    [] OTHER -> [pair |-> FALSE, key |-> "", value |-> ""]

EnvTexts == TextsOver(EnvLines, MaxEnvLines)

\* an assignment that puts a key assigned again at the end of the mapping
env_put_moves_to_end(map, key, value) ==
  Append(SelectSeq(map, LAMBDA e : e.key # key), [key |-> key, value |-> value])

\* env_vars[key] = value on a dict, kept as its items in insertion order: a
\* key already present keeps its place and takes the new value
env_put(map, key, value) ==
  IF \E i \in 1..Len(map) : map[i].key = key
  THEN [i \in 1..Len(map) |-> IF map[i].key = key THEN [key |-> key, value |-> value] ELSE map[i]]
  ELSE Append(map, [key |-> key, value |-> value])

\* the loop of parse_env_file over the lines, from the mapping built so far
RECURSIVE parse_lines(_, _)
parse_lines(lines, map) ==
  IF lines = <<>> THEN map
  ELSE LET info == EnvLineInfo(Head(lines))
       IN parse_lines(Tail(lines),
                      IF info.pair THEN env_put(map, info.key, info.value) ELSE map)

\* EnvironmentHandler.parse_env_file
parse_env_file(lines) == parse_lines(lines, <<>>)

\* -------------------------------------------------------- DeploymentService
\* deploy_repository without one of its early returns
analysis_gate_ignored(valid) == "continue"

clone_gate_ignored(clone_success) == "continue"

detection_gate_ignored(has_fastapi) == "continue"

\* the remote file fetched whatever was uploaded
NeedsFetchAlways(custom_requirements) == TRUE

\* the source labels "repository" and "default" exchanged
requirements_source_swapped(custom_requirements, requirements_content) ==
  IF Truthy(custom_requirements) THEN "uploaded"
  ELSE IF Truthy(requirements_content) THEN "default" ELSE "repository"

\* The branches of deploy_repository on the result of each step: "continue"
\* goes on to the next step, "return" leaves with a failure result.
analysis_gate(valid) == IF ~valid THEN "return" ELSE "continue"

clone_gate(clone_success) == IF ~clone_success THEN "return" ELSE "continue"

detection_gate(has_fastapi) == IF ~has_fastapi THEN "return" ELSE "continue"

generation_gate(success) == IF ~success THEN "return" ELSE "continue"

\* `if not requirements_content:` after requirements_content = custom_requirements
NeedsFetch(custom_requirements) == ~Truthy(custom_requirements)

\* the "source" entry of the success result
requirements_source(custom_requirements, requirements_content) ==
  IF Truthy(custom_requirements) THEN "uploaded"
  ELSE IF Truthy(requirements_content) THEN "repository" ELSE "default"

\* ColabNotebookGenerator.generate_deployment_notebook always reports success
notebook_success == TRUE

\* The value deploy_repository returns.
NoResult == [success |-> FALSE, step |-> "", error |-> "", suggestions |-> 0,
             app_file |-> <<>>, app_variable |-> "", source |-> "", has_custom |-> FALSE]

Failure(step, error, suggestions) ==
  [NoResult EXCEPT !.step = step, !.error = error, !.suggestions = suggestions]

Success(r) ==
  [NoResult EXCEPT !.success = TRUE, !.step = "done", !.app_file = r.app_file,
                   !.app_variable = r.app_variable,
                   !.has_custom = Truthy(r.requirements_content),
                   !.source = requirements_source(r.custom_requirements, r.requirements_content)]

\* The stages of the pipeline, in order.
StageOrder == <<"validate", "inspect", "clone", "scan", "resolve", "emit">>

\* ------------------------------------------------------------------- state
VARIABLES
  run,      \* per invocation of deploy_repository: its position, arguments, locals and history
  temp_dir, \* GitHubRepoHandler.temp_dir of the shared handler
  disk,     \* the temporary directories that exist: "fresh" (empty) or "cloned"
  nextDir,  \* the next name tempfile.mkdtemp hands out
  overlap,  \* whether the host lets invocations overlap in time
  call,     \* the latest direct call of a method of the handler, the detector or the validators
  now,      \* the reading of datetime.now(): the whole second and the part of it
  generated_notebooks, \* the files of the directory generated_notebooks: who wrote each last
  job,      \* per invocation that writes artifacts: its position, deployment_id and number
  ended     \* the invocations that have returned: number, deployment_id, success

vars == <<run, temp_dir, disk, nextDir, overlap, call, now, generated_notebooks, job, ended>>

\* No method has been called directly.  A call is recorded with its
\* arguments (arg), what it returned (out), whether it raised, the handler's
\* field and the disk before it (before) and, for cleanup_temp_directory, the
\* call that came before it (prev).
NoCall == [op |-> "none", prev |-> "none", arg |-> <<>>, out |-> <<>>,
           before |-> [temp_dir |-> NoDir, disk |-> <<>>], raised |-> FALSE]

NoURL == [head |-> "ftp://example.com", tail |-> <<>>]
GoodURL == [head |-> "https://github.com", tail |-> <<"/", "a", "/", "a">>]

\* An invocation that has not started.  Locals carry the names of
\* deploy_repository; the fields from `created` on are history:
\*   created   the directory this run's mkdtemp made
\*   stages    the stages whose work has started, in order
\*   failed    the first stage whose work failed ("none" so far)
\*   nMeta, nList, nReq, nClone, nScan   requests, clones and scans issued
\*   nCleanup  calls of cleanup_temp_directory; nDelete  deletes attempted
\*   fault     a remote request, command or file operation failed
\*   delFault  a delete left its directory in place
\*   answer    the answer to the request for requirements.txt
\*   git       how `git clone` ended
IdleRun ==
  [pc |-> "idle", github_url |-> NoURL, custom_requirements |-> "None",
   env_file_content |-> "None", temp_dir |-> NoDir, checkout |-> <<>>,
   fastapi_analysis |-> EmptyScan, app_file |-> <<>>, app_variable |-> "",
   requirements_content |-> "None", env_vars |-> 0,
   notebook |-> "unbuilt", single_cell_code |-> "unbuilt",
   exc |-> FALSE, ret |-> NoResult, result |-> NoResult,
   created |-> NoDir, stages |-> <<>>, failed |-> "none",
   nMeta |-> 0, nList |-> 0, nReq |-> 0, nClone |-> 0, nScan |-> 0,
   nCleanup |-> 0, nDelete |-> 0, fault |-> FALSE, delFault |-> FALSE, answer |-> "none",
   git |-> "none"]

\* the clock when the service starts
StartOfClock == [second |-> 0, part |-> "early"]

\* an invocation that has not started to write artifacts
IdleJob == [pc |-> "idle", deployment_id |-> 0, n |-> 0]

UploadedRequirements == {"None", "", "flask\n"}
UploadedEnv == {"None", "KEY=value"}

Init ==
  /\ run = [p \in Procs |-> IdleRun]
  /\ temp_dir = NoDir
  /\ disk = <<>>
  /\ nextDir = 1
  /\ overlap = FALSE
  /\ call = NoCall
  /\ now = StartOfClock
  /\ generated_notebooks = <<>>
  /\ job = [p \in Procs |-> IdleJob]
  /\ ended = {}

InitOverlap ==
  /\ run = [p \in Procs |-> IdleRun]
  /\ temp_dir = NoDir
  /\ disk = <<>>
  /\ nextDir = 1
  /\ overlap = TRUE
  /\ call = NoCall
  /\ now = StartOfClock
  /\ generated_notebooks = <<>>
  /\ job = [p \in Procs |-> IdleJob]
  /\ ended = {}

\* Overlapping invocations are explored on one well-formed URL and without
\* injected failures of the remote API; the sequential ones on every input.
Pick(full, few) == IF overlap THEN few ELSE full

\* The URLs submitted: every text the structural checks refuse, and one
\* well-formed URL (past the checks the pipeline only hands the URL on).
SubmittedURLs == {u \in URLs : ~StartsWithGithub(u) \/ Len(path_parts(u)) < 2} \cup {GoodURL}

\* the first failure of a run is the one recorded
Fail(r, stage) == [r EXCEPT !.failed = IF @ = "none" THEN stage ELSE @]

\* An exception inside the inner try block: control goes to the finally
Raise(r, stage) == [Fail(r, stage) EXCEPT !.pc = "finally", !.exc = TRUE]

BeforeClone == {"validate", "metadata", "listing", "clone_mk"}

\* deploy_repository is called; invocations take the lowest free slot
Start(p) ==
  /\ run[p].pc = "idle"
  /\ \A q \in Procs : q < p => run[q].pc # "idle"
  /\ overlap \/ \A q \in Procs \ {p} : run[q].pc = "idle"
  /\ nextDir + Cardinality({q \in Procs : run[q].pc \in BeforeClone}) <= MaxDirs
  /\ \E url \in Pick(SubmittedURLs, {GoodURL}), req \in Pick(UploadedRequirements, {"None"}),
        env \in Pick(UploadedEnv, {"None"}) :
       run' = [run EXCEPT ![p] = [IdleRun EXCEPT !.pc = "validate", !.github_url = url,
                                                !.custom_requirements = req,
                                                !.env_file_content = env]]
  /\ UNCHANGED <<temp_dir, disk, nextDir, overlap, call, now, generated_notebooks, job, ended>>

\* analyze_repository_structure has its answer: deploy_repository goes on to
\* the clone or returns the repository_validation failure
AfterAnalysis(r, valid, error) ==
  IF analysis_gate(valid) = "continue"
  THEN [r EXCEPT !.pc = "clone_mk"]
  ELSE [r EXCEPT !.pc = "done", !.result = Failure("repository_validation", error, 0)]

\* validate_github_url, up to the metadata request
Validate(p) ==
  /\ run[p].pc = "validate"
  /\ LET chk == StructuralCheck(run[p].github_url)
         r == [run[p] EXCEPT !.stages = Append(@, "validate")]
     IN run' = [run EXCEPT ![p] =
                  IF chk = "ok" THEN [r EXCEPT !.pc = "metadata"]
                  ELSE AfterAnalysis(Fail(r, "validate"), FALSE, chk)]
  /\ UNCHANGED <<temp_dir, disk, nextDir, overlap, call, now, generated_notebooks, job, ended>>

\* validate_github_url: the metadata request and its answer
Metadata(p) ==
  /\ run[p].pc = "metadata"
  /\ \E status \in Pick(MetadataStatuses, {"200"}) :
       LET err == metadata_error(status)
           r == [run[p] EXCEPT !.stages = Append(@, "inspect"), !.nMeta = @ + 1]
       IN run' = [run EXCEPT ![p] =
                    IF err = "ok" THEN [r EXCEPT !.pc = "listing"]
                    ELSE AfterAnalysis(Fail([r EXCEPT !.fault = TRUE], "inspect"), FALSE, err)]
  /\ UNCHANGED <<temp_dir, disk, nextDir, overlap, call, now, generated_notebooks, job, ended>>

\* analyze_repository_structure: the contents-listing request and its answer
Listing(p) ==
  /\ run[p].pc = "listing"
  /\ \E status \in Pick(ListingStatuses, {"200"}) :
       LET err == listing_error(status)
           r == [run[p] EXCEPT !.nList = @ + 1]
       IN run' = [run EXCEPT ![p] =
                    IF err = "ok" THEN AfterAnalysis(r, TRUE, err)
                    ELSE AfterAnalysis(Fail([r EXCEPT !.fault = TRUE], "inspect"), FALSE, err)]
  /\ UNCHANGED <<temp_dir, disk, nextDir, overlap, call, now, generated_notebooks, job, ended>>

\* clone_repository_temp has its answer: deploy_repository goes on to the
\* scan or returns the repository_cloning failure
AfterClone(r, clone_success, dir, message) ==
  IF clone_gate(clone_success) = "continue"
  THEN [r EXCEPT !.pc = "scan", !.temp_dir = dir]
  ELSE [r EXCEPT !.pc = "done", !.result = Failure("repository_cloning", message, 0)]

\* clone_repository_temp: self.temp_dir = tempfile.mkdtemp(...)
CloneMk(p) ==
  /\ run[p].pc = "clone_mk"
  /\ nextDir <= MaxDirs
  /\ \E made \in Pick(BOOLEAN, {TRUE}) :
       LET r == [run[p] EXCEPT !.stages = Append(@, "clone")]
       IN IF made
          THEN /\ run' = [run EXCEPT ![p] = [r EXCEPT !.pc = "clone_run", !.created = nextDir]]
               /\ temp_dir' = nextDir
               /\ disk' = [d \in (DOMAIN disk) \cup {nextDir} |->
                             IF d = nextDir THEN "fresh" ELSE disk[d]]
               /\ nextDir' = nextDir + 1
          ELSE /\ run' = [run EXCEPT ![p] =
                            AfterClone(Fail([r EXCEPT !.fault = TRUE], "clone"),
                                       FALSE, NoDir, clone_message("error"))]
               /\ UNCHANGED <<temp_dir, disk, nextDir>>
  /\ UNCHANGED <<overlap, call, now, generated_notebooks, job, ended>>

\* clone_repository_temp: git clone into self.temp_dir, and the return
CloneRun(p) ==
  /\ run[p].pc = "clone_run"
  /\ \E wanted \in CloneOutcomes, repo \in Pick(Repos, {<<MainPy>>}) :
       LET outcome == IF temp_dir = NoDir THEN "error"
                      ELSE IF temp_dir \in DOMAIN disk /\ disk[temp_dir] = "cloned" THEN "nonzero"
                      ELSE wanted
           r == [run[p] EXCEPT !.nClone = @ + 1, !.git = outcome]
       IN IF outcome = "ok"
          THEN /\ run' = [run EXCEPT ![p] =
                            AfterClone([r EXCEPT !.checkout = repo], TRUE, temp_dir,
                                       clone_message(outcome))]
               /\ disk' = [d \in (DOMAIN disk) \cup {temp_dir} |->
                             IF d = temp_dir THEN "cloned" ELSE disk[d]]
          ELSE /\ run' = [run EXCEPT ![p] =
                            AfterClone(Fail([r EXCEPT !.fault = TRUE], "clone"),
                                       FALSE, NoDir, clone_message(outcome))]
               /\ disk' = disk
  /\ UNCHANGED <<temp_dir, nextDir, overlap, call, now, generated_notebooks, job, ended>>

\* The files os.walk finds under a run's workspace: its checkout while the
\* directory is on disk, nothing once it is gone.
WorkspaceFiles(r) ==
  IF r.temp_dir \in DOMAIN disk /\ disk[r.temp_dir] = "cloned" THEN r.checkout ELSE <<>>

\* Step 3: scan_directory_for_fastapi(temp_dir) and the has_fastapi branch
Scan(p) ==
  /\ run[p].pc = "scan"
  /\ \E walkFails \in Pick(BOOLEAN, {FALSE}) :
       LET analysis == scan_directory_for_fastapi(WorkspaceFiles(run[p]), walkFails)
           s == [run[p] EXCEPT !.stages = Append(@, "scan"), !.nScan = @ + 1,
                               !.fastapi_analysis = analysis,
                               !.fault = @ \/ walkFails]
           r == IF analysis.has_fastapi THEN s ELSE Fail(s, "scan")
       IN run' = [run EXCEPT ![p] =
                    IF detection_gate(analysis.has_fastapi) = "continue"
                    THEN [r EXCEPT !.pc = "read_app"]
                    ELSE [r EXCEPT !.pc = "finally",
                                   !.ret = Failure("fastapi_detection",
                                                   "No FastAPI application found in repository", 3)]]
  /\ UNCHANGED <<temp_dir, disk, nextDir, overlap, call, now, generated_notebooks, job, ended>>

\* recommended_app, app_file, the read of the entry file and
\* extract_app_variable_name
ReadApp(p) ==
  /\ run[p].pc = "read_app"
  /\ \E ioFails \in Pick(BOOLEAN, {FALSE}) :
       LET r == [run[p] EXCEPT !.stages = Append(@, "resolve"), !.fault = @ \/ ioFails]
           found == r.fastapi_analysis.found_apps
           files == WorkspaceFiles(r)
       IN run' = [run EXCEPT ![p] =
            IF found = <<>>
            THEN Raise(r, "resolve")
            ELSE LET app_file == r.fastapi_analysis.recommended_app.file
                     here == {i \in 1..Len(files) : files[i].path = app_file /\ files[i].readable}
                 IN IF ioFails \/ here = {}
                    THEN Raise([r EXCEPT !.app_file = app_file], "resolve")
                    ELSE [r EXCEPT !.pc = "requirements", !.app_file = app_file,
                                   !.app_variable =
                                      extract_app_variable_name(files[CHOOSE i \in here : TRUE].lines)]]
  /\ UNCHANGED <<temp_dir, disk, nextDir, overlap, call, now, generated_notebooks, job, ended>>

\* Step 4: requirements_content = custom_requirements, fetched when empty
Requirements(p) ==
  /\ run[p].pc = "requirements"
  /\ run' = [run EXCEPT ![p] =
               [@ EXCEPT !.requirements_content = run[p].custom_requirements,
                         !.pc = IF NeedsFetch(run[p].custom_requirements) THEN "req_meta" ELSE "env"]]
  /\ UNCHANGED <<temp_dir, disk, nextDir, overlap, call, now, generated_notebooks, job, ended>>

\* get_requirements_content: validate_github_url again, with its request
ReqMeta(p) ==
  /\ run[p].pc = "req_meta"
  /\ \E status \in Pick(MetadataStatuses, {"200"}) :
       run' = [run EXCEPT ![p] =
                 IF StructuralCheck(@.github_url) # "ok"
                 THEN [@ EXCEPT !.pc = "env", !.requirements_content = "None"]
                 ELSE IF metadata_error(status) # "ok"
                 THEN [@ EXCEPT !.pc = "env", !.requirements_content = "None",
                                !.nMeta = @ + 1, !.fault = TRUE]
                 ELSE [@ EXCEPT !.pc = "req_fetch", !.nMeta = @ + 1]]
  /\ UNCHANGED <<temp_dir, disk, nextDir, overlap, call, now, generated_notebooks, job, ended>>

\* get_requirements_content: the request for requirements.txt
ReqFetch(p) ==
  /\ run[p].pc = "req_fetch"
  /\ \E answer \in Pick(RequirementsAnswers, {"content"}) :
       run' = [run EXCEPT ![p] =
                 [@ EXCEPT !.pc = "env", !.nReq = @ + 1, !.answer = answer,
                           !.requirements_content = requirements_of(answer),
                           !.fault = @ \/ answer \in {"undecodable", "500", "neterr"}]]
  /\ UNCHANGED <<temp_dir, disk, nextDir, overlap, call, now, generated_notebooks, job, ended>>

\* Step 5: parse_env_file and validate_env_vars when env content was uploaded
Env(p) ==
  /\ run[p].pc = "env"
  /\ run' = [run EXCEPT ![p] =
               [@ EXCEPT !.pc = "generate",
                         !.env_vars = IF Truthy(run[p].env_file_content) THEN 1 ELSE 0]]
  /\ UNCHANGED <<temp_dir, disk, nextDir, overlap, call, now, generated_notebooks, job, ended>>

\* Steps 6 and 7: generate_deployment_notebook, the success branch, and
\* generate_single_cell_deployment; each artifact is recorded by the
\* requirements it was built from
Generate(p) ==
  /\ run[p].pc = "generate"
  /\ \E outcome \in Pick({"ok", "notebook_raises", "single_cell_raises"}, {"ok"}) :
       LET r == [run[p] EXCEPT !.stages = Append(@, "emit"), !.fault = @ \/ outcome # "ok"]
       IN run' = [run EXCEPT ![p] =
            IF outcome = "notebook_raises" THEN Raise(r, "emit")
            ELSE IF generation_gate(notebook_success) = "return"
            THEN [Fail(r, "emit") EXCEPT !.pc = "finally",
                           !.ret = Failure("notebook_generation", "Failed to generate notebook", 0)]
            ELSE IF outcome = "single_cell_raises"
            THEN Raise([r EXCEPT !.notebook = r.requirements_content], "emit")
            ELSE [r EXCEPT !.pc = "write_cell", !.notebook = r.requirements_content,
                           !.single_cell_code = r.requirements_content]]
  /\ UNCHANGED <<temp_dir, disk, nextDir, overlap, call, now, generated_notebooks, job, ended>>

\* Step 8: the single-cell text file is written
WriteCell(p) ==
  /\ run[p].pc = "write_cell"
  /\ \E written \in Pick(BOOLEAN, {TRUE}) :
       run' = [run EXCEPT ![p] =
                 IF written THEN [@ EXCEPT !.pc = "save_notebook"]
                 ELSE Raise([@ EXCEPT !.fault = TRUE], "emit")]
  /\ UNCHANGED <<temp_dir, disk, nextDir, overlap, call, now, generated_notebooks, job, ended>>

\* Step 9: save_notebook, then the success result is built
SaveNotebook(p) ==
  /\ run[p].pc = "save_notebook"
  /\ \E written \in Pick(BOOLEAN, {TRUE}) :
       run' = [run EXCEPT ![p] =
                 IF written THEN [@ EXCEPT !.pc = "finally", !.ret = Success(run[p])]
                 ELSE Raise([@ EXCEPT !.fault = TRUE], "emit")]
  /\ UNCHANGED <<temp_dir, disk, nextDir, overlap, call, now, generated_notebooks, job, ended>>

\* What a call of cleanup_temp_directory leaves in the run's history
Cleaned(r, c) ==
  [r EXCEPT !.nCleanup = @ + 1,
            !.nDelete = IF c.attempted THEN @ + 1 ELSE @,
            !.delFault = @ \/ (c.attempted /\ c.disk = disk)]

\* the finally block: cleanup_temp_directory, then the pending return or
\* exception takes its course
Finally(p) ==
  /\ run[p].pc = "finally"
  /\ \E outcome \in DeleteOutcomes :
       LET c == cleanup_temp_directory(temp_dir, disk, outcome)
           r == Cleaned(run[p], c)
       IN /\ run' = [run EXCEPT ![p] =
                       IF c.raised \/ r.exc THEN [r EXCEPT !.pc = "except", !.exc = TRUE]
                       ELSE [r EXCEPT !.pc = "done", !.result = r.ret]]
          /\ temp_dir' = c.temp_dir
          /\ disk' = c.disk
  /\ UNCHANGED <<nextDir, overlap, call, now, generated_notebooks, job, ended>>

\* the outer except block: cleanup_temp_directory, then the general_error
\* result; an exception raised here leaves deploy_repository
Except(p) ==
  /\ run[p].pc = "except"
  /\ \E outcome \in DeleteOutcomes :
       LET c == cleanup_temp_directory(temp_dir, disk, outcome)
           r == Cleaned(run[p], c)
       IN /\ run' = [run EXCEPT ![p] =
                       IF c.raised THEN [r EXCEPT !.pc = "escaped"]
                       ELSE [r EXCEPT !.pc = "done", !.exc = FALSE,
                                      !.result = Failure("general_error",
                                                         "Deployment preparation failed", 0)]]
          /\ temp_dir' = c.temp_dir
          /\ disk' = c.disk
  /\ UNCHANGED <<nextDir, overlap, call, now, generated_notebooks, job, ended>>

\* main() in app.py has taken the result (or caught the exception); the
\* session is ready for the next submission
Return(p) ==
  /\ run[p].pc \in {"done", "escaped"}
  /\ run' = [run EXCEPT ![p] = IdleRun]
  /\ UNCHANGED <<temp_dir, disk, nextDir, overlap, call, now, generated_notebooks, job, ended>>

Next ==
  \E p \in Procs :
    \/ Start(p)
    \/ Validate(p)
    \/ Metadata(p)
    \/ Listing(p)
    \/ CloneMk(p)
    \/ CloneRun(p)
    \/ Scan(p)
    \/ ReadApp(p)
    \/ Requirements(p)
    \/ ReqMeta(p)
    \/ ReqFetch(p)
    \/ Env(p)
    \/ Generate(p)
    \/ WriteCell(p)
    \/ SaveNotebook(p)
    \/ Finally(p)
    \/ Except(p)
    \/ Return(p)

\* invocations one after another on the shared service
Spec == Init /\ [][Next]_vars

\* invocations that may overlap on the shared service
SpecOverlap == InitOverlap /\ [][Next]_vars

\* ------------------------------------------- the methods called directly
\* The record of a call made now
Called(op, prev, arg, out, raised) ==
  [op |-> op, prev |-> prev, arg |-> arg, out |-> out,
   before |-> [temp_dir |-> temp_dir, disk |-> disk], raised |-> raised]

\* GitHubRepoHandler.clone_repository_temp(url): mkdtemp, git clone, return
CallClone ==
  /\ nextDir <= MaxDirs
  /\ \E made \in BOOLEAN, outcome \in CloneOutcomes :
       IF made
       THEN /\ temp_dir' = nextDir
            /\ nextDir' = nextDir + 1
            /\ disk' = [d \in (DOMAIN disk) \cup {nextDir} |->
                          IF d = nextDir THEN (IF outcome = "ok" THEN "cloned" ELSE "fresh")
                          ELSE disk[d]]
            /\ call' = Called("clone_repository_temp", "none", outcome,
                              [success |-> outcome = "ok", message |-> clone_message(outcome)], FALSE)
       ELSE /\ call' = Called("clone_repository_temp", "none", "error",
                              [success |-> FALSE, message |-> clone_message("error")], FALSE)
            /\ UNCHANGED <<temp_dir, disk, nextDir>>
  /\ UNCHANGED <<run, overlap, now, generated_notebooks, job, ended>>

\* GitHubRepoHandler.cleanup_temp_directory()
CallCleanup ==
  /\ \E outcome \in DeleteOutcomes :
       LET c == cleanup_temp_directory(temp_dir, disk, outcome)
       IN /\ temp_dir' = c.temp_dir
          /\ disk' = c.disk
          /\ call' = Called("cleanup_temp_directory", call.op, outcome,
                            [attempted |-> c.attempted,
                             strategies |-> IF c.attempted
                                            THEN force_remove_readonly(outcome).strategies
                                            ELSE <<>>],
                            c.raised)
  /\ UNCHANGED <<run, nextDir, overlap, now, generated_notebooks, job, ended>>

\* Something other than the handler removes a directory under the system's
\* temporary directory: the case os.path.exists guards against
TmpReaper ==
  /\ \E d \in DOMAIN disk :
       /\ disk' = Without(disk, d)
       /\ call' = Called("removed_elsewhere", "none", d, <<>>, FALSE)
  /\ UNCHANGED <<run, temp_dir, nextDir, overlap, now, generated_notebooks, job, ended>>

NextHandler ==
  \/ CallClone
  \/ CallCleanup
  \/ TmpReaper

\* clone_repository_temp and cleanup_temp_directory called directly on one
\* handler, in any order
SpecHandler == Init /\ [][NextHandler]_vars

\* The calls below neither read nor change the handler's field or the disk:
\* each is made once, on its arguments alone.

\* GitHubRepoHandler.validate_github_url(url)
CallValidate ==
  /\ call = NoCall
  /\ \E url \in HandlerURLs, status \in MetadataStatuses :
       call' = Called("validate_github_url", "none", [url |-> url, status |-> status, listing |-> "none"],
                      validate_github_url(url, status), FALSE)
  /\ UNCHANGED <<run, temp_dir, disk, nextDir, overlap, now, generated_notebooks, job, ended>>

\* GitHubRepoHandler.analyze_repository_structure(url)
CallAnalyze ==
  /\ call = NoCall
  /\ \E url \in HandlerURLs, status \in MetadataStatuses, listing \in ListingStatuses :
       LET sent == validate_github_url(url, status).valid
       IN call' = Called("analyze_repository_structure", "none",
                         [url |-> url, status |-> status,
                          listing |-> IF sent THEN listing ELSE "none"],
                         analyze_repository_structure(url, status, listing), FALSE)
  /\ UNCHANGED <<run, temp_dir, disk, nextDir, overlap, now, generated_notebooks, job, ended>>

\* validators.validate_github_url(url)
CallValidator ==
  /\ call = NoCall
  /\ \E url \in ValidatorInputs :
       call' = Called("validators.validate_github_url", "none", url,
                      validators_validate_github_url(url), FALSE)
  /\ UNCHANGED <<run, temp_dir, disk, nextDir, overlap, now, generated_notebooks, job, ended>>

\* FastAPIDetector.extract_app_variable_name(file_content)
CallExtract ==
  /\ call = NoCall
  /\ \E text \in SourceTexts :
       call' = Called("extract_app_variable_name", "none", text,
                      extract_app_variable_name(text), FALSE)
  /\ UNCHANGED <<run, temp_dir, disk, nextDir, overlap, now, generated_notebooks, job, ended>>

\* FastAPIDetector.scan_directory_for_fastapi(directory)
CallScan ==
  /\ call = NoCall
  /\ \E tree \in Trees, walkFails \in BOOLEAN :
       call' = Called("scan_directory_for_fastapi", "none", [tree |-> tree, walkFails |-> walkFails],
                      scan_directory_for_fastapi(tree, walkFails), FALSE)
  /\ UNCHANGED <<run, temp_dir, disk, nextDir, overlap, now, generated_notebooks, job, ended>>

\* EnvironmentHandler.parse_env_file(env_content)
CallParseEnv ==
  /\ call = NoCall
  /\ \E text \in EnvTexts :
       call' = Called("parse_env_file", "none", text, parse_env_file(text), FALSE)
  /\ UNCHANGED <<run, temp_dir, disk, nextDir, overlap, now, generated_notebooks, job, ended>>

NextHelpers ==
  \/ CallValidate
  \/ CallAnalyze
  \/ CallValidator
  \/ CallExtract
  \/ CallScan
  \/ CallParseEnv

\* the validators, the handler's requests and the detector's methods called
\* directly
SpecHelpers == Init /\ [][NextHelpers]_vars

\* ------------------------------------------------------ the artifact files
\* The clock advances: the later part of the same second, then the next second
Tick ==
  /\ now.part = "early" \/ now.second < MaxSeconds
  /\ now' = IF now.part = "early" THEN [now EXCEPT !.part = "late"]
            ELSE [second |-> now.second + 1, part |-> "early"]
  /\ UNCHANGED <<run, temp_dir, disk, nextDir, overlap, call, generated_notebooks, job, ended>>

\* strftime("%Y%m%d_%H%M%S") keeps the whole second and drops the rest
deployment_id_of(t) == t.second

single_cell_filename(deployment_id) == <<"fastapi_deploy_single_cell_", deployment_id, ".txt">>

notebook_filename(deployment_id) == <<"fastapi_deploy_", deployment_id, ".ipynb">>

\* open(path, 'w') and the write into it: done, refused before the file
\* exists, or broken off with the file created
WriteOutcomes == {"written", "refused", "partial"}

write_file(dir, name, n, outcome) ==
  IF outcome = "refused" THEN dir
  ELSE [x \in (DOMAIN dir) \cup {name} |->
          IF x = name THEN [writer |-> n, complete |-> (outcome = "written")] ELSE dir[x]]

\* the invocations are numbered in the order they start
RunNumber == 1 + Cardinality(ended) + Cardinality({q \in Procs : job[q].pc # "idle"})

\* deploy_repository returns
Returned(j, success) ==
  ended \cup {[n |-> j.n, deployment_id |-> j.deployment_id, success |-> success]}

\* deploy_repository is called and reads the clock
EmitBegin(p) ==
  /\ job[p].pc = "idle"
  /\ RunNumber <= MaxRuns
  /\ job' = [job EXCEPT ![p] = [pc |-> "steps", deployment_id |-> deployment_id_of(now),
                                n |-> RunNumber]]
  /\ UNCHANGED <<run, temp_dir, disk, nextDir, overlap, call, now, generated_notebooks, ended>>

\* Steps 1 to 7: they go through, return a failure, or raise
EmitSteps(p) ==
  /\ job[p].pc = "steps"
  /\ \E outcome \in {"continue", "return", "raise"} :
       IF outcome = "continue"
       THEN /\ job' = [job EXCEPT ![p].pc = "write_cell"]
            /\ ended' = ended
       ELSE /\ job' = [job EXCEPT ![p] = IdleJob]
            /\ ended' = Returned(job[p], FALSE)
  /\ UNCHANGED <<run, temp_dir, disk, nextDir, overlap, call, now, generated_notebooks>>

\* Step 8: the single-cell text file is written; a failure raises, and the
\* handlers of deploy_repository return general_error
EmitWriteCell(p) ==
  /\ job[p].pc = "write_cell"
  /\ \E outcome \in WriteOutcomes :
       /\ generated_notebooks' =
            write_file(generated_notebooks, single_cell_filename(job[p].deployment_id),
                       job[p].n, outcome)
       /\ IF outcome = "written"
          THEN /\ job' = [job EXCEPT ![p].pc = "save_notebook"]
               /\ ended' = ended
          ELSE /\ job' = [job EXCEPT ![p] = IdleJob]
               /\ ended' = Returned(job[p], FALSE)
  /\ UNCHANGED <<run, temp_dir, disk, nextDir, overlap, call, now>>

\* Step 9: save_notebook writes the notebook file, then the success result
\* is returned; a failure raises, and the result is general_error
EmitSaveNotebook(p) ==
  /\ job[p].pc = "save_notebook"
  /\ \E outcome \in WriteOutcomes :
       /\ generated_notebooks' =
            write_file(generated_notebooks, notebook_filename(job[p].deployment_id),
                       job[p].n, outcome)
       /\ ended' = Returned(job[p], outcome = "written")
  /\ job' = [job EXCEPT ![p] = IdleJob]
  /\ UNCHANGED <<run, temp_dir, disk, nextDir, overlap, call, now>>

NextEmit ==
  \/ Tick
  \/ \E p \in Procs : EmitBegin(p)
  \/ \E p \in Procs : EmitSteps(p)
  \/ \E p \in Procs : EmitWriteCell(p)
  \/ \E p \in Procs : EmitSaveNotebook(p)

\* Invocations of deploy_repository in one process, which share the clock and
\* the directory generated_notebooks
SpecEmit == Init /\ [][NextEmit]_vars

\* ------------------------------------------------------------------ claims
Done(p) == run[p].pc = "done"

\* the run's clone succeeded: deploy_repository holds the workspace path
Cloned(p) == run[p].temp_dir # NoDir

\* C1: a run that created its temporary directory leaves no such directory
\* on disk when deploy_repository returns, provided no delete failed.
C1_NoLeakedTempDir ==
  \A p \in Procs :
    Done(p) /\ run[p].created # NoDir /\ ~run[p].delFault => run[p].created \notin DOMAIN disk

\* C2: after a successful clone, cleanup_temp_directory has been called
\* exactly once when deploy_repository returns, on every exit path.
C2_ReleasedExactlyOnce ==
  \A p \in Procs : Done(p) /\ Cloned(p) => run[p].nCleanup = 1

\* C3: with overlapping invocations on the shared service, a run that is
\* scanning or reading its workspace still has it on disk, the handler's field
\* does not name another run's directory while that run holds it, and once
\* every run whose clone succeeded has returned without a failed delete no
\* workspace is left on disk.
C3_OwnWorkspaceOnly ==
  /\ \A p \in Procs : run[p].pc \in {"scan", "read_app"} => run[p].temp_dir \in DOMAIN disk
  /\ (\A p \in Procs : Done(p) /\ Cloned(p) /\ ~run[p].delFault) => DOMAIN disk = {}

\* C4: deploy_repository never lets an exception escape, and what it returns
\* is either the success result or a failure with a step and an error.
FailureSteps == {"repository_validation", "repository_cloning", "fastapi_detection",
                 "notebook_generation", "general_error"}

C4_NoEscape ==
  \A p \in Procs :
    /\ run[p].pc # "escaped"
    /\ Done(p) =>
         \/ /\ run[p].result.success
            /\ run[p].result.app_file # <<>>
            /\ run[p].notebook # "unbuilt" /\ run[p].single_cell_code # "unbuilt"
         \/ /\ ~run[p].result.success
            /\ run[p].result.step \in FailureSteps
            /\ run[p].result.error # ""

C4_Witness ==
  \E p \in Procs :
    Done(p) /\ run[p].result.step = "general_error" /\ run[p].delFault /\ run[p].nCleanup = 2

\* C5: the stages start in the order validate, inspect, clone, scan, resolve,
\* emit; once a stage has failed no later stage starts; the run succeeds
\* exactly when no stage failed, and a failed run reports the step of the
\* stage that failed first.
StepOf(stage) ==
  CASE stage \in {"validate", "inspect"} -> "repository_validation"
    [] stage = "clone" -> "repository_cloning"
    [] stage = "scan" -> "fastapi_detection"
    [] OTHER -> "general_error"

C5_StageOrder ==
  \A p \in Procs :
    LET r == run[p] IN
      /\ Len(r.stages) <= Len(StageOrder)
      /\ r.stages = SubSeq(StageOrder, 1, Len(r.stages))
      /\ r.failed # "none" => r.stages # <<>> /\ r.stages[Len(r.stages)] = r.failed
      /\ Done(p) => /\ r.result.success <=> r.failed = "none"
                    /\ r.result.success => r.stages = StageOrder
                    /\ ~r.result.success => r.result.step = StepOf(r.failed)

C5_Witness ==
  \E p \in Procs :
    Done(p) /\ run[p].failed = "resolve" /\ Len(run[p].stages) = 5 /\ ~run[p].result.success

\* C6: for a URL that fails the structural checks the run returns the
\* repository_validation failure, and sends no request and makes no clone.
C6_MalformedUrlNoRequests ==
  \A p \in Procs :
    run[p].pc # "idle" /\ StructuralCheck(run[p].github_url) # "ok" =>
      /\ run[p].nMeta = 0 /\ run[p].nList = 0 /\ run[p].nReq = 0
      /\ run[p].nClone = 0 /\ run[p].created = NoDir
      /\ run[p].pc \in {"validate", "done"}
      /\ Done(p) => ~run[p].result.success /\ run[p].result.step = "repository_validation"

C6_Witness ==
  \E p \in Procs :
    /\ Done(p)
    /\ run[p].github_url = [head |-> "ftp://example.com", tail |-> <<"/", "a", "/", "a">>]
    /\ run[p].result.step = "repository_validation"
    /\ run[p].nMeta = 0

\* C7: within one run the repository-metadata request, the contents-listing
\* request, the clone and the scan are each issued at most once.
C7_EachStageOnce ==
  \A p \in Procs :
    run[p].nMeta <= 1 /\ run[p].nList <= 1 /\ run[p].nClone <= 1 /\ run[p].nScan <= 1

\* C8: with nothing uploaded, no failing request, command or file operation,
\* a remote requirements.txt with content, and a checkout whose only FastAPI
\* candidate is the root main.py with the import and `app = FastAPI()`, the
\* run succeeds with app_file main.py, app_variable app, source repository.
C8_Scenario(p) ==
  /\ run[p].custom_requirements = "None"
  /\ run[p].env_file_content = "None"
  /\ run[p].answer = "content"
  /\ ~run[p].fault
  /\ \E i \in 1..Len(run[p].checkout) : run[p].checkout[i] = MainPy
  /\ \A i \in 1..Len(run[p].checkout) :
       run[p].checkout[i] # MainPy =>
         ~(IsPy(run[p].checkout[i]) /\ analyze_python_file(run[p].checkout[i]).has_fastapi)

C9_NothingDetected ==
  \A p \in Procs :
    run[p].nScan = 1 /\ ~run[p].fastapi_analysis.has_fastapi =>
      /\ run[p].fastapi_analysis.found_apps = <<>>
      /\ ~run[p].exc
      /\ run[p].pc \in {"finally", "done"}
      /\ Done(p) => /\ ~run[p].result.success
                    /\ run[p].result.step = "fastapi_detection"
                    /\ run[p].result.suggestions > 0

C9_Witness ==
  \E p \in Procs :
    /\ Done(p) /\ run[p].nScan = 1
    /\ run[p].checkout = <<Readme>>
    /\ run[p].result.step = "fastapi_detection"

\* C10: with non-empty requirements uploaded no requirements are fetched,
\* both artifacts are built from exactly the uploaded text, and the reported
\* source is "uploaded".
C10_UploadedWins ==
  \A p \in Procs :
    Truthy(run[p].custom_requirements) =>
      /\ run[p].nReq = 0
      /\ run[p].notebook \in {"unbuilt", run[p].custom_requirements}
      /\ run[p].single_cell_code \in {"unbuilt", run[p].custom_requirements}
      /\ Done(p) /\ run[p].result.success =>
           /\ run[p].notebook = run[p].custom_requirements
           /\ run[p].single_cell_code = run[p].custom_requirements
           /\ run[p].result.source = "uploaded"

C10_Witness ==
  \E p \in Procs :
    /\ Done(p) /\ run[p].result.success
    /\ run[p].custom_requirements = "flask\n"
    /\ run[p].notebook = "flask\n" /\ run[p].single_cell_code = "flask\n"
    /\ run[p].result.source = "uploaded"

\* C11: with nothing uploaded, resolving the requirements leaves no failure
\* and no pending exception; the resolved content is non-empty exactly when
\* the fetch answered with content; every failed fetch (and a failed second
\* validation) gives no content at all, as an absent file does; a successful
\* run reports source "repository" exactly when the fetch answered with
\* content and "default" otherwise.
FetchFailures == {"undecodable", "404", "500", "neterr"}

C11_FetchNeverFails ==
  \A p \in Procs :
    LET r == run[p] IN
      ~Truthy(r.custom_requirements) =>
        /\ r.pc \in {"req_meta", "req_fetch", "env"} => r.failed = "none" /\ ~r.exc
        /\ r.pc \in {"env", "generate"} =>
             /\ Truthy(r.requirements_content) <=> r.answer = "content"
             /\ r.answer \in FetchFailures \cup {"none"} => r.requirements_content = "None"
        /\ Done(p) /\ r.result.success =>
             /\ r.result.source = (IF r.answer = "content" THEN "repository" ELSE "default")
             /\ r.result.has_custom = (r.answer = "content")

C11_Witness ==
  \E p \in Procs :
    /\ Done(p) /\ run[p].result.success
    /\ run[p].custom_requirements = "" /\ run[p].answer = "500"
    /\ run[p].result.source = "default"

\* C12: the validation the pipeline runs (validate_github_url of the handler,
\* alone or inside analyze_repository_structure) refuses every URL that has
\* more path segments than owner and name, and sends no request for it.
C12_ExtraSegmentsRejected ==
  call.op \in {"validate_github_url", "analyze_repository_structure"}
    /\ StartsWithGithub(call.arg.url) /\ Len(path_parts(call.arg.url)) > 2
    /\ (\A i \in 1..Len(path_parts(call.arg.url)) : path_parts(call.arg.url)[i] # <<>>)
  => ~call.out.valid /\ call.out.requests = 0

\* C13: validators.validate_github_url answers valid = false, without
\* raising, for every input that is not https://github.com/<owner>/<name>
\* with an optional closing slash, owner and name being non-empty words.
C13_WellShaped(url) ==
  /\ url.head = "https://github.com"
  /\ \E i \in 2..Len(url.tail) : \E j \in (i + 2)..Len(url.tail) :
       /\ url.tail[1] = "/"
       /\ \A k \in 2..i : url.tail[k] = "a"
       /\ url.tail[i + 1] = "/"
       /\ \A k \in (i + 2)..j : url.tail[k] = "a"
       /\ SubSeq(url.tail, j + 1, Len(url.tail)) \in {<<>>, <<"/">>}

C13_RejectsEveryOtherInput ==
  call.op = "validators.validate_github_url" /\ ~C13_WellShaped(call.arg)
  => ~call.out.valid /\ ~call.raised

\* C14: a call of cleanup_temp_directory that directly follows another call
\* of it, or that finds the handler without a workspace path or with a path
\* that is no longer on disk, raises nothing and leaves the handler's field
\* and the disk as they were.
C14_CleanupIdempotent ==
  call.op = "cleanup_temp_directory"
    /\ \/ call.prev = "cleanup_temp_directory"
       \/ call.before.temp_dir = NoDir
       \/ call.before.temp_dir \notin DOMAIN call.before.disk
  => /\ ~call.raised
     /\ ~call.out.attempted
     /\ temp_dir = call.before.temp_dir
     /\ disk = call.before.disk

C14_Witness ==
  /\ call.op = "cleanup_temp_directory"
  /\ call.before.temp_dir # NoDir
  /\ call.before.temp_dir \notin DOMAIN call.before.disk
  /\ DOMAIN disk # {}

\* C15: the result of a run does not depend on whether its deletes worked:
\* a run that left the inner try block by return gives the result it was
\* returning, a run that left it by an exception gives the general_error
\* failure, and no exception of the cleanup leaves deploy_repository.
C15_Expected(r) ==
  IF r.failed \in {"resolve", "emit"}
  THEN Failure("general_error", "Deployment preparation failed", 0)
  ELSE r.ret

C15_CleanupNeverMasks ==
  \A p \in Procs :
    /\ run[p].pc # "escaped"
    /\ run[p].pc = "except" => run[p].failed \in {"resolve", "emit"}
    /\ Done(p) /\ run[p].nCleanup > 0 => run[p].result = C15_Expected(run[p])

C15_Witness ==
  \E p \in Procs :
    /\ Done(p) /\ run[p].delFault /\ run[p].created \in DOMAIN disk
    /\ run[p].result.success

\* C16: analyze_repository_structure reports the failure of either of its
\* two requests by one classification: 404 as not found or private, another
\* non-200 status as an API error, a transport failure as a network error.
C16_Classified(status) ==
  CASE status = "404" -> "Repository not found or is private"
    [] status = "neterr" -> "Network error"
    [] OTHER -> "GitHub API error"

C16_SameClassification ==
  call.op = "analyze_repository_structure" /\ call.out.requests > 0 =>
    /\ call.arg.status \in {"404", "500", "neterr"} =>
         call.out.error = C16_Classified(call.arg.status)
    /\ call.arg.listing \in {"404", "500", "neterr"} =>
         call.out.error = C16_Classified(call.arg.listing)

\* C17: when `git clone` times out, is missing or exits non-zero, the run
\* raises nothing and returns the repository_cloning failure with the message
\* of that outcome (three different messages), and no scan is run.
C17_Message(outcome) ==
  CASE outcome = "timeout" -> "Clone operation timed out"
    [] outcome = "nogit" -> "Git not found. Please install Git."
    [] outcome = "nonzero" -> "Git clone failed"

C17_CloneFailures ==
  \A p \in Procs :
    run[p].git \in {"timeout", "nogit", "nonzero"} =>
      /\ run[p].pc = "done" /\ ~run[p].exc
      /\ ~run[p].result.success
      /\ run[p].result.step = "repository_cloning"
      /\ run[p].result.error = C17_Message(run[p].git)
      /\ run[p].nScan = 0 /\ run[p].stages = <<"validate", "inspect", "clone">>

C17_Witness ==
  \E p \in Procs :
    /\ Done(p) /\ run[p].git = "timeout"
    /\ run[p].result.step = "repository_cloning"
    /\ run[p].result.error = "Clone operation timed out"

\* C18: for every text, extract_app_variable_name raises nothing and returns
\* a non-empty identifier, and returns "app" when the text holds no
\* assignment of a FastAPI instance.
C18_Identifiers == {"app", "api", "web", "server"}

C18_NoAssignment(text) ==
  \A i \in 1..Len(text) :
    LineInfo(text[i]).call = "no" /\ LineInfo(text[i]).re1 = "" /\ LineInfo(text[i]).re2 = ""

C18_AlwaysAnIdentifier ==
  call.op = "extract_app_variable_name" =>
    /\ ~call.raised
    /\ call.out # ""
    /\ call.out \in C18_Identifiers
    /\ C18_NoAssignment(call.arg) => call.out = "app"

\* C19: the recommended candidate of a scan is a candidate of the list with
\* the maximum adjusted score (confidence, plus 50 for a preferred entry
\* name, plus 20 for a path without separator), and no candidate before it in
\* walk order has that score; a root main.py is recommended over a nested
\* file of the same confidence.
C19_Adjusted(app) ==
  app.confidence
    + (IF app.file[Len(app.file)] \in {"main.py", "app.py", "server.py", "api.py"} THEN 50 ELSE 0)
    + (IF Len(app.file) = 1 THEN 20 ELSE 0)

C19_BestCandidate ==
  call.op = "scan_directory_for_fastapi" /\ call.out.found_apps # <<>> =>
    LET found == call.out.found_apps
        best == call.out.recommended_app
    IN /\ \E i \in 1..Len(found) :
            /\ found[i] = best
            /\ \A k \in 1..Len(found) : C19_Adjusted(found[k]) <= C19_Adjusted(best)
            /\ \A k \in 1..(i - 1) : C19_Adjusted(found[k]) < C19_Adjusted(best)
       /\ \A i, k \in 1..Len(found) :
            found[i].file = <<"main.py">> /\ Len(found[k].file) > 1
              /\ found[k].confidence = found[i].confidence
            => best # found[k]

C19_Witness ==
  /\ call.op = "scan_directory_for_fastapi"
  /\ call.arg.tree = <<NestedMainPy, ApiPy, MainPy>>
  /\ call.out.recommended_app.file = <<"api.py">>

\* C20: after a scan that completed, found_apps lists, in walk order and once
\* each, exactly the .py files whose text matched an import pattern or an
\* instance pattern; files without a match, files that are not .py and files
\* that could not be read have no candidate.
C20_Matched(f) ==
  /\ f.path[Len(f.path)] \in {"main.py", "app.py", "utils.py", "data.py", "api.py", "server.py",
                               "notes.py"}
  /\ f.readable
  /\ \E i \in 1..Len(f.lines) : LineInfo(f.lines[i]).imp # {} \/ LineInfo(f.lines[i]).inst # {}

C20_PathsOf(files) == [i \in 1..Len(files) |-> files[i].path]

C20_CandidatesOf(found) == [i \in 1..Len(found) |-> found[i].file]

C20_OneCandidatePerMatch ==
  call.op = "scan_directory_for_fastapi" /\ ~call.out.error =>
    C20_CandidatesOf(call.out.found_apps) = C20_PathsOf(SelectSeq(call.arg.tree, C20_Matched))

C20_Witness ==
  /\ call.op = "scan_directory_for_fastapi"
  /\ call.arg.tree = <<NotesPy, ServerPy, BinaryPy>>
  /\ Len(call.out.found_apps) = 1

\* C21: every failure result carries a step that names the stage in which
\* the run failed, also when the failure is an exception raised in a stage
\* after the scan.
C21_StepOfStage(stage) ==
  CASE stage \in {"validate", "inspect"} -> {"repository_validation"}
    [] stage = "clone" -> {"repository_cloning"}
    [] stage = "scan" -> {"fastapi_detection"}
    [] stage = "resolve" -> {"app_resolution", "requirements_resolution"}
    [] stage = "emit" -> {"notebook_generation"}
    [] OTHER -> {}

C21_StepNamesStage ==
  \A p \in Procs :
    Done(p) /\ ~run[p].result.success => run[p].result.step \in C21_StepOfStage(run[p].failed)

\* C22: parse_env_file returns a mapping whose keys are unique and are the
\* keys of the kept lines; each key has the value of its last line, and the
\* keys stand in the order of their first lines.
C22_First(text, key) ==
  CHOOSE i \in 1..Len(text) :
    /\ EnvLineInfo(text[i]).pair /\ EnvLineInfo(text[i]).key = key
    /\ \A k \in 1..(i - 1) : ~(EnvLineInfo(text[k]).pair /\ EnvLineInfo(text[k]).key = key)

C22_Last(text, key) ==
  CHOOSE i \in 1..Len(text) :
    /\ EnvLineInfo(text[i]).pair /\ EnvLineInfo(text[i]).key = key
    /\ \A k \in (i + 1)..Len(text) : ~(EnvLineInfo(text[k]).pair /\ EnvLineInfo(text[k]).key = key)

C22_LastWinsFirstOrder ==
  call.op = "parse_env_file" =>
    LET text == call.arg
        map == call.out
    IN /\ \A i, j \in 1..Len(map) : i # j => map[i].key # map[j].key
       /\ {map[i].key : i \in 1..Len(map)}
            = {EnvLineInfo(text[i]).key : i \in {k \in 1..Len(text) : EnvLineInfo(text[k]).pair}}
       /\ \A i \in 1..Len(map) :
            map[i].value = EnvLineInfo(text[C22_Last(text, map[i].key)]).value
       /\ \A i, j \in 1..Len(map) :
            i < j => C22_First(text, map[i].key) < C22_First(text, map[j].key)

C22_Witness ==
  /\ call.op = "parse_env_file"
  /\ call.arg = <<"A=1", "B=1", " A = 3 ">>
  /\ call.out = <<[key |-> "A", value |-> "3"], [key |-> "B", value |-> "1"]>>

\* C23: whenever the direct recursive delete fails, with whatever error, the
\* forced-writable recursive delete is attempted next.
C23_RetryAfterAnyFailure ==
  call.op = "cleanup_temp_directory" /\ call.out.attempted /\ call.arg # "rmtree_ok" =>
    /\ Len(call.out.strategies) >= 2
    /\ call.out.strategies[2] = "rmtree_onerror"

\* C24: for a text that ast.parse refuses and in which one of the two text
\* patterns finds a name, extract_app_variable_name returns that name (the
\* first match of the first pattern that matches).
C24_Unparsable(text) == \E i \in 1..Len(text) : ~LineInfo(text[i]).parses

C24_PatternName(text) ==
  LET m1 == {i \in 1..Len(text) : LineInfo(text[i]).re1 # ""}
      m2 == {i \in 1..Len(text) : LineInfo(text[i]).re2 # ""}
  IN IF m1 # {} THEN LineInfo(text[CHOOSE i \in m1 : \A k \in m1 : i <= k]).re1
     ELSE IF m2 # {} THEN LineInfo(text[CHOOSE i \in m2 : \A k \in m2 : i <= k]).re2
     ELSE ""

C24_FallbackWhenUnparsable ==
  call.op = "extract_app_variable_name" /\ C24_Unparsable(call.arg)
    /\ C24_PatternName(call.arg) # ""
  => call.out = C24_PatternName(call.arg)

\* C25 as stated: for a text that parses and holds assignments of a FastAPI
\* call to a name, the result is the name of the one that stands first in the
\* text, at whatever depth.
C25_Assigns(text, depths) ==
  {i \in 1..Len(text) : LineInfo(text[i]).call = "yes" /\ LineInfo(text[i]).id # ""
                          /\ LineInfo(text[i]).depth \in depths}

C25_FirstOf(text, set) == LineInfo(text[CHOOSE i \in set : \A k \in set : i <= k]).id

C25_FirstInSourceOrder ==
  call.op = "extract_app_variable_name" /\ ~C24_Unparsable(call.arg)
    /\ C25_Assigns(call.arg, {0, 1}) # {}
  => call.out = C25_FirstOf(call.arg, C25_Assigns(call.arg, {0, 1}))

\* C25, corrected: the result is the name of the first such assignment at
\* module level, in text order; only a text without one at module level
\* gives the first nested one.
C25_ModuleLevelFirst ==
  call.op = "extract_app_variable_name" /\ ~C24_Unparsable(call.arg)
    /\ C25_Assigns(call.arg, {0, 1}) # {}
  => call.out = IF C25_Assigns(call.arg, {0}) # {}
                THEN C25_FirstOf(call.arg, C25_Assigns(call.arg, {0}))
                ELSE C25_FirstOf(call.arg, C25_Assigns(call.arg, {1}))

C25_Witness ==
  /\ call.op = "extract_app_variable_name"
  /\ call.arg = <<"def f(): server = FastAPI()", "app = FastAPI()">>
  /\ call.out = "app"

\* C26 as stated: the confidence of a candidate is 30 for each import of the
\* framework in the file plus 40 for each instance construction found in it,
\* plus 20 for route-decorator evidence and 10 for a mention of uvicorn.
C26_FileAt(tree, path) == tree[CHOOSE i \in 1..Len(tree) : tree[i].path = path]

C26_Count(f, field) == Cardinality({i \in 1..Len(f.lines) : LineInfo(f.lines[i])[field] # {}})

C26_Patterns(f, field) == UNION {LineInfo(f.lines[i])[field] : i \in 1..Len(f.lines)}

C26_Has(f, field) == \E i \in 1..Len(f.lines) : LineInfo(f.lines[i])[field]

C26_Bonus(f) == (IF C26_Has(f, "route") THEN 20 ELSE 0) + (IF C26_Has(f, "uvi") THEN 10 ELSE 0)

C26_PerMatchFound ==
  call.op = "scan_directory_for_fastapi" =>
    \A k \in 1..Len(call.out.found_apps) :
      LET f == C26_FileAt(call.arg.tree, call.out.found_apps[k].file)
      IN call.out.found_apps[k].confidence =
           30 * C26_Count(f, "imp") + 40 * C26_Count(f, "inst") + C26_Bonus(f)

\* C26, corrected: the confidence of a candidate is 30 for each import
\* pattern that matches the file plus 40 for each instance pattern that
\* matches it, however often, plus 20 for route-decorator evidence and 10 for
\* a mention of uvicorn; and a readable .py file with an import of the
\* framework and `app = FastAPI()` yields exactly one candidate, with
\* confidence at least 70.
C26_PerPattern ==
  call.op = "scan_directory_for_fastapi" /\ ~call.out.error =>
    /\ \A k \in 1..Len(call.out.found_apps) :
         LET f == C26_FileAt(call.arg.tree, call.out.found_apps[k].file)
         IN call.out.found_apps[k].confidence =
              30 * Cardinality(C26_Patterns(f, "imp"))
              + 40 * Cardinality(C26_Patterns(f, "inst")) + C26_Bonus(f)
    /\ \A i \in 1..Len(call.arg.tree) :
         LET f == call.arg.tree[i]
         IN IsPy(f) /\ f.readable /\ C26_Count(f, "imp") >= 1
            /\ (\E j \in 1..Len(f.lines) : f.lines[j] = "app = FastAPI()")
            => /\ Cardinality({k \in 1..Len(call.out.found_apps) :
                                call.out.found_apps[k].file = f.path}) = 1
               /\ \A k \in 1..Len(call.out.found_apps) :
                    call.out.found_apps[k].file = f.path
                    => call.out.found_apps[k].confidence >= 70

C26_Witness ==
  /\ call.op = "scan_directory_for_fastapi"
  /\ call.arg.tree = <<MainPy, PkgServerPy>>
  /\ Len(call.out.found_apps) = 2
  /\ call.out.found_apps[1].confidence = 130
  /\ call.out.found_apps[2].confidence = 40

\* C27 as stated: a scan of a tree with an unreadable .py file returns what
\* the scan of the tree without that file returns: the file appears nowhere
\* in the result.
C27_Unreadable(f) == IsPy(f) /\ ~f.readable

C27_Readable(f) == ~C27_Unreadable(f)

C27_HasUnreadable ==
  /\ call.op = "scan_directory_for_fastapi"
  /\ ~call.arg.walkFails
  /\ \E i \in 1..Len(call.arg.tree) : C27_Unreadable(call.arg.tree[i])

C27_ScanOfRest == scan_directory_for_fastapi(SelectSeq(call.arg.tree, C27_Readable), FALSE)

C27_ExcludedFromResults == C27_HasUnreadable => call.out = C27_ScanOfRest

\* C27, corrected: the scan of a tree with an unreadable .py file does not
\* abort, has no candidate for that file, and has the candidates, the
\* has_fastapi flag and the recommendation of the scan of the tree without
\* it; the path of the unreadable file stays in python_files.
C27_SkippedButListed ==
  C27_HasUnreadable =>
    /\ ~call.out.error
    /\ \A k \in 1..Len(call.out.found_apps) :
         \A i \in 1..Len(call.arg.tree) :
           C27_Unreadable(call.arg.tree[i]) => call.out.found_apps[k].file # call.arg.tree[i].path
    /\ call.out.found_apps = C27_ScanOfRest.found_apps
    /\ call.out.has_fastapi = C27_ScanOfRest.has_fastapi
    /\ call.out.recommended_app = C27_ScanOfRest.recommended_app
    /\ \A i \in 1..Len(call.arg.tree) :
         C27_Unreadable(call.arg.tree[i]) =>
           \E k \in 1..Len(call.out.python_files) : call.out.python_files[k] = call.arg.tree[i].path

C27_Witness ==
  /\ call.op = "scan_directory_for_fastapi"
  /\ call.arg.tree = <<BinaryPy, MainPy>>
  /\ ~call.arg.walkFails
  /\ Len(call.out.found_apps) = 1
  /\ call.out.found_apps[1].file = MainPy.path
  /\ call.out.python_files = <<BinaryPy.path, MainPy.path>>

\* C30: whenever deploy_repository returns success, the selected app_file
\* holds an assignment of a FastAPI call to the reported app_variable.
C30_Assigns(f, name) ==
  \E j \in 1..Len(f.lines) :
    LineInfo(f.lines[j]).call = "yes" /\ LineInfo(f.lines[j]).id = name

C30_VariableIsDefined ==
  \A p \in Procs :
    Done(p) /\ run[p].result.success =>
      \E i \in 1..Len(run[p].checkout) :
        /\ run[p].checkout[i].path = run[p].result.app_file
        /\ C30_Assigns(run[p].checkout[i], run[p].result.app_variable)

\* C28: the notebook file and the single-cell file of a run that returned
\* success are the ones that run wrote: no other run has written to its paths.
C28_ArtifactsNeverOverwritten ==
  \A e \in ended :
    e.success =>
      \A name \in {single_cell_filename(e.deployment_id), notebook_filename(e.deployment_id)} :
        name \in DOMAIN generated_notebooks /\ generated_notebooks[name].writer = e.n

\* C29: a run that returned success=false has left no file it wrote in
\* generated_notebooks.
C29_FailureLeavesNoArtifact ==
  \A e \in ended :
    ~e.success =>
      \A name \in DOMAIN generated_notebooks : generated_notebooks[name].writer # e.n

====
